---- MODULE Spec2Model ----
(***************************************************************************)
(* mirdata/download_utils.py: the download helpers of mirdata.             *)
(*                                                                         *)
(* The state is the local filesystem; every public function of the module *)
(* is one action, and the condition of the network that a call meets is   *)
(* an input of the action.  Python strings                                 *)
(* that the code takes apart (URLs) are sequences of one-character         *)
(* strings, paths are sequences of path components, and Python's None is  *)
(* the value None below.                                                   *)
(***************************************************************************)
EXTENDS Integers, Sequences, FiniteSets, TLC

VARIABLES
    fs,              \* the regular files on disk: path -> content
    dirs,            \* the directories on disk
    last,            \* the most recent call: arguments and what it did
    prev,            \* the call before the most recent one, summarised (kept
                     \* where the calls are calls of download_from_remote)
    objs_to_download,\* downloader, lines 85-93: URLs still to classify
    zip_downloads,   \* downloader, line 81
    tar_downloads,   \* downloader, line 82
    file_downloads   \* downloader, line 83

vars == <<fs, dirs, last, prev,
          objs_to_download, zip_downloads, tar_downloads, file_downloads>>

(***************************************************************************)
(* Bounds of the model.                                                    *)
(***************************************************************************)
\* longest partial_download list the model passes to downloader
MaxSel == 2
\* longest working set of URLs the classification loop is run on
MaxObjs == 2

(***************************************************************************)
(* Values.                                                                 *)
(***************************************************************************)
\* Python's None, where a path or a message is expected
None == <<"None">>

\* the messages of lines 161-170 and 74-79, as printed
ERROR_MSG == <<"error_msg">>
START_DOWNLOAD_MESSAGE == <<"start_download_message">>

\* the save_dir every call is given
SAVE_DIR == <<"out">>

\* file contents: a zip container, a tar container, a plain text file,
\* the files the archives hold, and anything else (a truncated transfer,
\* an error page served by a stale mirror)
Contents == {"ZIP", "TAR", "TXT", "X", "Y", "BAD"}

\* the entries of a readable zip container: relative path and content
ZipEntries(c) ==
    IF c = "ZIP" THEN <<[name |-> <<"data", "x.csv">>, content |-> "X"]>>
    ELSE <<>>

\* the entries of a readable tar container
TarEntries(c) ==
    IF c = "TAR" THEN <<[name |-> <<"y.txt">>, content |-> "Y"]>>
    ELSE <<>>

\* zipfile.ZipFile(path, 'r') opens the file
IsZip(c) == c = "ZIP"

\* tarfile.open(path, 'r') opens the file
IsTar(c) == c = "TAR"

\* the MD5 digest of a content, as a hex string
MD5(c) ==
    CASE c = "ZIP" -> "d41d"
      [] c = "TAR" -> "9e10"
      [] c = "TXT" -> "7f3a"
      [] c = "X"   -> "0cc1"
      [] c = "Y"   -> "4a8a"
      [] OTHER     -> "ffff"

(***************************************************************************)
(* The manifest of the model: three RemoteFileMetadata tuples.             *)
(***************************************************************************)
URL_AUDIO == <<"h", "/", "a", ".", "z", "i", "p">>
URL_ANNOT == <<"h", "/", "b", ".", "t", "a", "r", ".", "g", "z">>
URL_INDEX == <<"h", "/", "c", ".", "t", "x", "t">>

RemoteFileMetadata(filename, url, checksum, destination_dir) ==
    [filename |-> filename, url |-> url, checksum |-> checksum,
     destination_dir |-> destination_dir]

REMOTES ==
    [audio |-> RemoteFileMetadata("a.zip", URL_AUDIO, MD5("ZIP"), None),
     annot |-> RemoteFileMetadata("b.tar.gz", URL_ANNOT, MD5("TAR"), <<"sub">>),
     index |-> RemoteFileMetadata("c.txt", URL_INDEX, MD5("TXT"), None)]

Keys == DOMAIN REMOTES

\* what the origin server holds under a URL
ServerFile(url) ==
    CASE url = URL_AUDIO -> "ZIP"
      [] url = URL_ANNOT -> "TAR"
      [] url = URL_INDEX -> "TXT"
      [] OTHER           -> "BAD"

\* the conditions a transfer can meet: the right bytes arrive; wrong bytes
\* arrive and the transfer ends normally; the connection cannot be opened;
\* the connection breaks after part of the file was written
NetModes == {"ok", "corrupt", "down", "reset"}

(***************************************************************************)
(* os.path and the filesystem.                                             *)
(***************************************************************************)
\* os.path.join(a, b): an absolute b replaces a
Join(a, b) == IF b # <<>> /\ b[1] = "/" THEN b ELSE a \o b

\* os.path.dirname(p)
Dirname(p) == SubSeq(p, 1, Len(p) - 1)

\* a directory and all its parents
Ancestors(d) == {SubSeq(d, 1, i) : i \in 1..Len(d)}

\* os.path.exists(p)
Exists(f, d, p) == p \in DOMAIN f \/ p \in d

\* os.makedirs(p)
Makedirs(d, p) == d \cup Ancestors(p)

EmptyFS == [q \in {} |-> "BAD"]

WriteFile(f, p, c) == [q \in DOMAIN f \cup {p} |-> IF q = p THEN c ELSE f[q]]

\* os.remove(p)
RemoveFile(f, p) == [q \in DOMAIN f \ {p} |-> f[q]]

(***************************************************************************)
(* What one call did.  Every operation below returns such a record.        *)
(***************************************************************************)
Effect(f, d, outcome, ret, transfers, md5s, extracts, removes, printed) ==
    [fs |-> f, dirs |-> d, outcome |-> outcome, ret |-> ret,
     transfers |-> transfers, md5s |-> md5s, extracts |-> extracts,
     removes |-> removes, printed |-> printed]

\* a call that ran after another: the state and the result of the second,
\* the work of both
Then(a, b) ==
    Effect(b.fs, b.dirs, b.outcome, b.ret, a.transfers + b.transfers,
           a.md5s + b.md5s, a.extracts + b.extracts, a.removes + b.removes,
           a.printed \o b.printed)

(***************************************************************************)
(* download_from_remote                                                    *)
(***************************************************************************)
\* urllib.request.urlretrieve(url, filename=...): the file is opened for
\* writing once the connection is open, and a failure leaves it as it is
urlretrieve(f, mode, url, filename) ==
    CASE mode = "ok"      -> [fs |-> WriteFile(f, filename, ServerFile(url)),
                              raised |-> FALSE]
      [] mode = "corrupt" -> [fs |-> WriteFile(f, filename, "BAD"),
                              raised |-> FALSE]
      [] mode = "down"    -> [fs |-> f, raised |-> TRUE]
      [] mode = "reset"   -> [fs |-> WriteFile(f, filename, "BAD"),
                              raised |-> TRUE]

\* mirdata.utils.md5(path): the hex digest of the file's bytes
md5(f, path) == MD5(f[path])

\* line 148 without "or force_overwrite"
NeedsTransfer_IgnoringForce(exists, force_overwrite) == ~exists

\* line 148 without the test for the file
NeedsTransfer_Always(exists, force_overwrite) == TRUE

\* line 148: the condition under which the file is transferred
NeedsTransfer(exists, force_overwrite) == ~exists \/ force_overwrite

\* line 174 comparing a digest with itself
ChecksumNeverDiffers(expected, checksum) == checksum # checksum

\* line 174: the comparison of the expected and the computed digest
ChecksumDiffers(expected, checksum) == expected # checksum

\* lines 139-147: where the file of a remote goes
DownloadDir(remote, save_dir) ==
    IF remote.destination_dir = None
    THEN save_dir
    ELSE Join(save_dir, remote.destination_dir)

DownloadPath(remote, save_dir) ==
    Join(DownloadDir(remote, save_dir), <<remote.filename>>)

\* download_from_remote with lines 173-179 inside the if of line 148: a file
\* found on disk is returned without its digest being computed
download_from_remote_trusting_disk(f, d, mode, remote, save_dir, force_overwrite) ==
    LET download_dir == DownloadDir(remote, save_dir)
        d1 == IF ~Exists(f, d, download_dir) THEN Makedirs(d, download_dir) ELSE d
        download_path == DownloadPath(remote, save_dir)
        transfer == NeedsTransfer(Exists(f, d1, download_path), force_overwrite)
        got == urlretrieve(f, mode, remote.url, download_path)
    IN  IF ~transfer
        THEN Effect(f, d1, "ok", download_path, 0, 0, 0, 0, <<>>)
        ELSE IF got.raised
        THEN Effect(got.fs, d1, "URLError", None, 1, 0, 0, 0, <<ERROR_MSG>>)
        ELSE IF ChecksumDiffers(remote.checksum, md5(got.fs, download_path))
        THEN Effect(got.fs, d1, "IOError", None, 1, 1, 0, 0, <<>>)
        ELSE Effect(got.fs, d1, "ok", download_path, 1, 1, 0, 0, <<>>)

\* download_from_remote without the "raise e" of line 171: the error of the
\* transfer is printed and the function goes on to line 173
download_from_remote_swallowing(f, d, mode, remote, save_dir, force_overwrite) ==
    LET download_dir == DownloadDir(remote, save_dir)
        d1 == IF ~Exists(f, d, download_dir) THEN Makedirs(d, download_dir) ELSE d
        download_path == DownloadPath(remote, save_dir)
        transfer == NeedsTransfer(Exists(f, d1, download_path), force_overwrite)
        got == IF transfer
               THEN urlretrieve(f, mode, remote.url, download_path)
               ELSE [fs |-> f, raised |-> FALSE]
        n == IF transfer THEN 1 ELSE 0
        printed == IF got.raised THEN <<ERROR_MSG>> ELSE <<>>
    IN  IF download_path \notin DOMAIN got.fs
        THEN Effect(got.fs, d1, "FileNotFoundError", None, n, 1, 0, 0, printed)
        ELSE IF ChecksumDiffers(remote.checksum, md5(got.fs, download_path))
        THEN Effect(got.fs, d1, "IOError", None, n, 1, 0, 0, printed)
        ELSE Effect(got.fs, d1, "ok", download_path, n, 1, 0, 0, printed)

download_from_remote(f, d, mode, remote, save_dir, force_overwrite) ==
    LET download_dir == DownloadDir(remote, save_dir)
        d1 == IF ~Exists(f, d, download_dir) THEN Makedirs(d, download_dir) ELSE d
        download_path == DownloadPath(remote, save_dir)
        transfer == NeedsTransfer(Exists(f, d1, download_path), force_overwrite)
        got == IF transfer
               THEN urlretrieve(f, mode, remote.url, download_path)
               ELSE [fs |-> f, raised |-> FALSE]
        n == IF transfer THEN 1 ELSE 0
    IN  IF got.raised
        THEN Effect(got.fs, d1, "URLError", None, n, 0, 0, 0, <<ERROR_MSG>>)
        ELSE IF download_path \notin DOMAIN got.fs
        THEN Effect(got.fs, d1, "FileNotFoundError", None, n, 1, 0, 0, <<>>)
        ELSE IF ChecksumDiffers(remote.checksum, md5(got.fs, download_path))
        THEN Effect(got.fs, d1, "IOError", None, n, 1, 0, 0, <<>>)
        ELSE Effect(got.fs, d1, "ok", download_path, n, 1, 0, 0, <<>>)

(***************************************************************************)
(* unzip, untar, download_zip_file, download_tar_file                      *)
(***************************************************************************)
\* ZipFile.extractall(path) / TarFile.extractall(path): every entry is
\* written under path, with the directories its relative path needs
RECURSIVE extractall(_, _, _, _)
extractall(f, d, entries, path) ==
    IF entries = <<>>
    THEN [fs |-> f, dirs |-> d]
    ELSE LET target == Join(path, Head(entries).name)
         IN  extractall(WriteFile(f, target, Head(entries).content),
                        Makedirs(d, Dirname(target)), Tail(entries), path)

\* unzip with the os.remove of line 212 in a finally clause
unzip_removing_always(f, d, zip_path, cleanup) ==
    IF zip_path \notin DOMAIN f
    THEN Effect(f, d, "FileNotFoundError", None, 0, 0, 0, 0, <<>>)
    ELSE IF ~IsZip(f[zip_path])
    THEN IF cleanup
         THEN Effect(RemoveFile(f, zip_path), d, "BadZipFile", None, 0, 0, 0, 1, <<>>)
         ELSE Effect(f, d, "BadZipFile", None, 0, 0, 0, 0, <<>>)
    ELSE LET x == extractall(f, d, ZipEntries(f[zip_path]), Dirname(zip_path))
         IN  IF cleanup
             THEN Effect(RemoveFile(x.fs, zip_path), x.dirs, "ok", None, 0, 0, 1, 1, <<>>)
             ELSE Effect(x.fs, x.dirs, "ok", None, 0, 0, 1, 0, <<>>)

unzip(f, d, zip_path, cleanup) ==
    IF zip_path \notin DOMAIN f
    THEN Effect(f, d, "FileNotFoundError", None, 0, 0, 0, 0, <<>>)
    ELSE IF ~IsZip(f[zip_path])
    THEN Effect(f, d, "BadZipFile", None, 0, 0, 0, 0, <<>>)
    ELSE LET x == extractall(f, d, ZipEntries(f[zip_path]), Dirname(zip_path))
         IN  IF cleanup
             THEN Effect(RemoveFile(x.fs, zip_path), x.dirs, "ok", None, 0, 0, 1, 1, <<>>)
             ELSE Effect(x.fs, x.dirs, "ok", None, 0, 0, 1, 0, <<>>)

\* untar extracting into the first directory of the path, not into the
\* directory that holds the archive
untar_into_save_dir(f, d, tar_path, cleanup) ==
    IF tar_path \notin DOMAIN f
    THEN Effect(f, d, "FileNotFoundError", None, 0, 0, 0, 0, <<>>)
    ELSE IF ~IsTar(f[tar_path])
    THEN Effect(f, d, "ReadError", None, 0, 0, 0, 0, <<>>)
    ELSE LET x == extractall(f, d, TarEntries(f[tar_path]), SubSeq(tar_path, 1, 1))
         IN  IF cleanup
             THEN Effect(RemoveFile(x.fs, tar_path), x.dirs, "ok", None, 0, 0, 1, 1, <<>>)
             ELSE Effect(x.fs, x.dirs, "ok", None, 0, 0, 1, 0, <<>>)

untar(f, d, tar_path, cleanup) ==
    IF tar_path \notin DOMAIN f
    THEN Effect(f, d, "FileNotFoundError", None, 0, 0, 0, 0, <<>>)
    ELSE IF ~IsTar(f[tar_path])
    THEN Effect(f, d, "ReadError", None, 0, 0, 0, 0, <<>>)
    ELSE LET x == extractall(f, d, TarEntries(f[tar_path]), Dirname(tar_path))
         IN  IF cleanup
             THEN Effect(RemoveFile(x.fs, tar_path), x.dirs, "ok", None, 0, 0, 1, 1, <<>>)
             ELSE Effect(x.fs, x.dirs, "ok", None, 0, 0, 1, 0, <<>>)

\* download_zip_file passing True for force_overwrite at line 196
download_zip_file_forcing(f, d, mode, zip_remote, save_dir, force_overwrite, cleanup) ==
    LET r == download_from_remote(f, d, mode, zip_remote, save_dir, TRUE)
    IN  IF r.outcome # "ok"
        THEN r
        ELSE Then(r, unzip(r.fs, r.dirs, r.ret, cleanup))

\* download_zip_file with line 197 in a finally clause: the file at the
\* path is extracted also when download_from_remote raised
download_zip_file_ignoring_failure(f, d, mode, zip_remote, save_dir, force_overwrite, cleanup) ==
    LET r == download_from_remote(f, d, mode, zip_remote, save_dir, force_overwrite)
        x == unzip(r.fs, r.dirs, DownloadPath(zip_remote, save_dir), cleanup)
    IN  IF r.outcome # "ok"
        THEN [Then(r, x) EXCEPT !.outcome = r.outcome]
        ELSE Then(r, x)

download_zip_file(f, d, mode, zip_remote, save_dir, force_overwrite, cleanup) ==
    LET r == download_from_remote(f, d, mode, zip_remote, save_dir, force_overwrite)
    IN  IF r.outcome # "ok"
        THEN r
        ELSE Then(r, unzip(r.fs, r.dirs, r.ret, cleanup))

download_tar_file(f, d, mode, tar_remote, save_dir, force_overwrite, cleanup) ==
    LET r == download_from_remote(f, d, mode, tar_remote, save_dir, force_overwrite)
    IN  IF r.outcome # "ok"
        THEN r
        ELSE Then(r, untar(r.fs, r.dirs, r.ret, cleanup))

(***************************************************************************)
(* downloader, lines 85-93: the kind of archive behind a URL               *)
(***************************************************************************)
\* str.rfind(ch), counting from 1; 0 when ch does not occur
RFind(p, ch) ==
    LET at == {i \in 1..Len(p) : p[i] = ch}
    IN  IF at = {} THEN 0 ELSE CHOOSE i \in at : \A j \in at : j <= i

\* os.path.splitext(p): <<root, ext>>.  The extension starts at the last
\* dot, when that dot comes after the last separator and after a character
\* of the file name that is not a dot
splitext(p) ==
    LET sepIndex == RFind(p, "/")
        dotIndex == RFind(p, ".")
    IN  IF dotIndex > sepIndex
           /\ \E filenameIndex \in (sepIndex + 1)..(dotIndex - 1) :
                 p[filenameIndex] # "."
        THEN <<SubSeq(p, 1, dotIndex - 1), SubSeq(p, dotIndex, Len(p))>>
        ELSE <<p, <<>>>>

\* sub in s, for Python strings
Contains(sub, s) ==
    \E i \in 1..(Len(s) - Len(sub) + 1) : SubSeq(s, i, i + Len(sub) - 1) = sub

DOT_ZIP == <<".", "z", "i", "p">>
DOT_TAR == <<".", "t", "a", "r">>
DOT_TAR_GZ == <<".", "t", "a", "r", ".", "g", "z">>

\* lines 86-93: the list a remote with this URL is appended to
ArchiveKind(url) ==
    LET extension == splitext(url)[2]
    IN  IF Contains(DOT_ZIP, extension)
        THEN "zip"
        ELSE IF Contains(DOT_TAR_GZ, extension) \/ Contains(DOT_TAR, extension)
             THEN "tar"
             ELSE "plain"

(***************************************************************************)
(* downloader                                                              *)
(***************************************************************************)
\* download and partial_download: None, or a dict / a list with these keys
PyNone == [kind |-> "none", keys |-> <<>>]
PyDict(keys) == [kind |-> "dict", keys |-> keys]
PyList(keys) == [kind |-> "list", keys |-> keys]

\* lines 64-65 looking at the first key only
HasUnknownKey_FirstOnly(partial_keys, download_keys) ==
    /\ partial_keys # <<>>
    /\ \A j \in 1..Len(download_keys) : download_keys[j] # partial_keys[1]

\* lines 64-65: some key of partial_download is not a key of download
HasUnknownKey(partial_keys, download_keys) ==
    \E i \in 1..Len(partial_keys) :
        \A j \in 1..Len(download_keys) : download_keys[j] # partial_keys[i]

\* line 77: partial_download.keys() needs an object that has keys()
HasKeysMethod(v) == v.kind = "dict"

\* lines 85-93: the remotes of the working set that are of one kind, in
\* the order of the working set
GroupOf(objs, kind) ==
    LET OfKind(k) == ArchiveKind(REMOTES[k].url) = kind
    IN  SelectSeq(objs, OfKind)

\* lines 95-105: one of the three loops; an exception ends the call
RECURSIVE RunGroup(_, _, _, _, _, _, _)
RunGroup(e, mode, group, kind, save_dir, force_overwrite, cleanup) ==
    IF group = <<>> \/ e.outcome # "ok"
    THEN e
    ELSE LET remote == REMOTES[Head(group)]
             r == CASE kind = "zip" ->
                         download_zip_file(e.fs, e.dirs, mode, remote, save_dir,
                                           force_overwrite, cleanup)
                    [] kind = "tar" ->
                         download_tar_file(e.fs, e.dirs, mode, remote, save_dir,
                                           force_overwrite, cleanup)
                    [] OTHER ->
                         download_from_remote(e.fs, e.dirs, mode, remote, save_dir,
                                              force_overwrite)
         IN  RunGroup([Then(e, r) EXCEPT !.ret = None], mode, Tail(group), kind,
                      save_dir, force_overwrite, cleanup)

\* downloader with line 77 formatting the list as it is, and with line 72
\* outside the else of line 71: the working set is every key of the dict
downloader_fetching_all(f, d, mode, save_dir, download, partial_download, info_message, force_overwrite, cleanup) ==
    LET d1 == IF ~Exists(f, d, save_dir) THEN Makedirs(d, save_dir) ELSE d
        Ends(outcome, printed) == Effect(f, d1, outcome, None, 0, 0, 0, 0, printed)
    IN  IF download.kind # "none"
        THEN IF partial_download.kind # "none" /\ partial_download.kind # "list"
             THEN Ends("TypeError", <<>>)
             ELSE IF partial_download.kind # "none"
                     /\ HasUnknownKey(partial_download.keys, download.keys)
             THEN Ends("KeyError", <<>>)
             ELSE LET objs == download.keys
                      e0 == Ends("ok", <<START_DOWNLOAD_MESSAGE>>)
                      e1 == RunGroup(e0, mode, GroupOf(objs, "zip"), "zip", save_dir,
                                     force_overwrite, cleanup)
                      e2 == RunGroup(e1, mode, GroupOf(objs, "tar"), "tar", save_dir,
                                     force_overwrite, cleanup)
                  IN  RunGroup(e2, mode, GroupOf(objs, "plain"), "plain", save_dir,
                               force_overwrite, cleanup)
        ELSE IF info_message # None
             THEN Ends("ok", <<info_message>>)
             ELSE Ends("ok", <<>>)

\* downloader with lines 53-54 after the checks of lines 57-69: save_dir is
\* made only once partial_download has been accepted
downloader_validating_first(f, d, mode, save_dir, download, partial_download, info_message, force_overwrite, cleanup) ==
    LET d1 == IF ~Exists(f, d, save_dir) THEN Makedirs(d, save_dir) ELSE d
        Ends(outcome, printed) == Effect(f, d1, outcome, None, 0, 0, 0, 0, printed)
    IN  IF download.kind # "none"
        THEN IF partial_download.kind # "none" /\ partial_download.kind # "list"
             THEN Effect(f, d, "TypeError", None, 0, 0, 0, 0, <<>>)
             ELSE IF partial_download.kind # "none"
                     /\ HasUnknownKey(partial_download.keys, download.keys)
             THEN Effect(f, d, "KeyError", None, 0, 0, 0, 0, <<>>)
             ELSE IF ~HasKeysMethod(partial_download)
             THEN Ends("AttributeError", <<>>)
             ELSE LET objs == IF partial_download.kind # "none"
                              THEN partial_download.keys
                              ELSE download.keys
                      e0 == Ends("ok", <<START_DOWNLOAD_MESSAGE>>)
                      e1 == RunGroup(e0, mode, GroupOf(objs, "zip"), "zip", save_dir,
                                     force_overwrite, cleanup)
                      e2 == RunGroup(e1, mode, GroupOf(objs, "tar"), "tar", save_dir,
                                     force_overwrite, cleanup)
                  IN  RunGroup(e2, mode, GroupOf(objs, "plain"), "plain", save_dir,
                               force_overwrite, cleanup)
        ELSE IF info_message # None
             THEN Ends("ok", <<info_message>>)
             ELSE Ends("ok", <<>>)

\* downloader without the test of line 107: info_message is printed also
\* when it is None
downloader_printing_always(f, d, mode, save_dir, download, partial_download, info_message, force_overwrite, cleanup) ==
    LET d1 == IF ~Exists(f, d, save_dir) THEN Makedirs(d, save_dir) ELSE d
        Ends(outcome, printed) == Effect(f, d1, outcome, None, 0, 0, 0, 0, printed)
    IN  IF download.kind # "none"
        THEN IF partial_download.kind # "none" /\ partial_download.kind # "list"
             THEN Ends("TypeError", <<>>)
             ELSE IF partial_download.kind # "none"
                     /\ HasUnknownKey(partial_download.keys, download.keys)
             THEN Ends("KeyError", <<>>)
             ELSE IF ~HasKeysMethod(partial_download)
             THEN Ends("AttributeError", <<>>)
             ELSE LET objs == IF partial_download.kind # "none"
                              THEN partial_download.keys
                              ELSE download.keys
                      e0 == Ends("ok", <<START_DOWNLOAD_MESSAGE>>)
                      e1 == RunGroup(e0, mode, GroupOf(objs, "zip"), "zip", save_dir,
                                     force_overwrite, cleanup)
                      e2 == RunGroup(e1, mode, GroupOf(objs, "tar"), "tar", save_dir,
                                     force_overwrite, cleanup)
                  IN  RunGroup(e2, mode, GroupOf(objs, "plain"), "plain", save_dir,
                               force_overwrite, cleanup)
        ELSE Ends("ok", <<info_message>>)

downloader(f, d, mode, save_dir, download, partial_download, info_message, force_overwrite, cleanup) ==
    LET d1 == IF ~Exists(f, d, save_dir) THEN Makedirs(d, save_dir) ELSE d
        Ends(outcome, printed) == Effect(f, d1, outcome, None, 0, 0, 0, 0, printed)
    IN  IF download.kind # "none"
        THEN IF partial_download.kind # "none" /\ partial_download.kind # "list"
             THEN Ends("TypeError", <<>>)
             ELSE IF partial_download.kind # "none"
                     /\ HasUnknownKey(partial_download.keys, download.keys)
             THEN Ends("KeyError", <<>>)
             ELSE IF ~HasKeysMethod(partial_download)
             THEN Ends("AttributeError", <<>>)
             ELSE LET objs == IF partial_download.kind # "none"
                              THEN partial_download.keys
                              ELSE download.keys
                      e0 == Ends("ok", <<START_DOWNLOAD_MESSAGE>>)
                      e1 == RunGroup(e0, mode, GroupOf(objs, "zip"), "zip", save_dir,
                                     force_overwrite, cleanup)
                      e2 == RunGroup(e1, mode, GroupOf(objs, "tar"), "tar", save_dir,
                                     force_overwrite, cleanup)
                  IN  RunGroup(e2, mode, GroupOf(objs, "plain"), "plain", save_dir,
                               force_overwrite, cleanup)
        ELSE IF info_message # None
             THEN Ends("ok", <<info_message>>)
             ELSE Ends("ok", <<>>)

(***************************************************************************)
(* The calls the model makes.                                              *)
(***************************************************************************)
\* the download dicts: None, {}, and dicts over REMOTES in insertion order
Downloads == {PyNone, PyDict(<<>>), PyDict(<<"audio", "annot", "index">>)}

\* the keys a partial_download list is made of; "nope" is in no dict
SelectionKeys == {"audio", "nope"}

\* partial_download: None, a list of at most MaxSel keys, or not a list
Selections ==
    {PyNone, PyDict(<<"audio">>)}
        \cup {PyList(ks) : ks \in UNION {[1..n -> SelectionKeys] : n \in 1..MaxSel}}

InfoMessages == {None, <<"hello">>}

\* the paths unzip and untar are called on
ArchivePaths == {DownloadPath(REMOTES[k], SAVE_DIR) : k \in Keys}

\* the paths whose file differs between two filesystems
Changed(f, g) ==
    {p \in DOMAIN f \cup DOMAIN g :
        \/ p \notin DOMAIN f
        \/ p \notin DOMAIN g
        \/ f[p] # g[p]}

\* the content of the file at a path, "-" when there is none
ContentAt(f, path) == IF path \in DOMAIN f THEN f[path] ELSE "-"

NoCall ==
    [op |-> "none", remote |-> "-", path |-> None, download |-> PyNone,
     partial_download |-> PyNone, info_message |-> None,
     force_overwrite |-> FALSE, cleanup |-> FALSE,
     net |-> "ok", pre |-> "-", outcome |-> "ok", ret |-> None,
     transfers |-> 0, md5s |-> 0, extracts |-> 0, removes |-> 0,
     printed |-> <<>>, changed |-> {}, made |-> {}]

\* the record of a call on one file: its arguments, the network (mode) and
\* the file it met, and what it did (e)
CallOnFile(op, remote, path, force_overwrite, cleanup, mode, e) ==
    [NoCall EXCEPT !.op = op, !.remote = remote, !.path = path,
                   !.force_overwrite = force_overwrite, !.cleanup = cleanup,
                   !.net = mode, !.pre = ContentAt(fs, path),
                   !.outcome = e.outcome, !.ret = e.ret,
                   !.transfers = e.transfers, !.md5s = e.md5s,
                   !.extracts = e.extracts, !.removes = e.removes,
                   !.printed = e.printed, !.changed = Changed(fs, e.fs),
                   !.made = e.dirs \ dirs]

\* what is kept of the call before the last one
Summary(c) ==
    [op |-> c.op, remote |-> c.remote, force_overwrite |-> c.force_overwrite,
     cleanup |-> c.cleanup, outcome |-> c.outcome, transfers |-> c.transfers,
     extracts |-> c.extracts, pre |-> c.pre]

Returns(call, e) ==
    /\ fs' = e.fs
    /\ dirs' = e.dirs
    /\ last' = call
    /\ UNCHANGED <<objs_to_download, zip_downloads, tar_downloads, file_downloads>>

DownloadFromRemote(k, force_overwrite, mode) ==
    LET e == download_from_remote(fs, dirs, mode, REMOTES[k], SAVE_DIR, force_overwrite)
    IN  Returns(CallOnFile("download_from_remote", k, DownloadPath(REMOTES[k], SAVE_DIR),
                           force_overwrite, FALSE, mode, e), e)

DownloadZipFile(k, force_overwrite, cleanup, mode) ==
    LET e == download_zip_file(fs, dirs, mode, REMOTES[k], SAVE_DIR, force_overwrite,
                               cleanup)
    IN  Returns(CallOnFile("download_zip_file", k, DownloadPath(REMOTES[k], SAVE_DIR),
                           force_overwrite, cleanup, mode, e), e)

DownloadTarFile(k, force_overwrite, cleanup, mode) ==
    LET e == download_tar_file(fs, dirs, mode, REMOTES[k], SAVE_DIR, force_overwrite,
                               cleanup)
    IN  Returns(CallOnFile("download_tar_file", k, DownloadPath(REMOTES[k], SAVE_DIR),
                           force_overwrite, cleanup, mode, e), e)

\* unzip and untar use no network
Unzip(zip_path, cleanup) ==
    LET e == unzip(fs, dirs, zip_path, cleanup)
    IN  Returns(CallOnFile("unzip", "-", zip_path, FALSE, cleanup, "ok", e), e)

Untar(tar_path, cleanup) ==
    LET e == untar(fs, dirs, tar_path, cleanup)
    IN  Returns(CallOnFile("untar", "-", tar_path, FALSE, cleanup, "ok", e), e)

Downloader(download, partial_download, info_message, force_overwrite, cleanup, mode) ==
    LET e == downloader(fs, dirs, mode, SAVE_DIR, download, partial_download,
                        info_message, force_overwrite, cleanup)
    IN  Returns([CallOnFile("downloader", "-", None, force_overwrite, cleanup, mode, e)
                   EXCEPT !.download = download,
                          !.partial_download = partial_download,
                          !.info_message = info_message], e)

Init ==
    /\ fs = EmptyFS
    /\ dirs = {}
    /\ last = NoCall
    /\ prev = Summary(NoCall)
    /\ objs_to_download = <<>>
    /\ zip_downloads = <<>>
    /\ tar_downloads = <<>>
    /\ file_downloads = <<>>

\* the functions that work on one file, called in any order
Next ==
    \/ \E k \in Keys, force_overwrite \in BOOLEAN, mode \in NetModes :
          DownloadFromRemote(k, force_overwrite, mode) /\ UNCHANGED prev
    \/ \E k \in Keys, force_overwrite \in BOOLEAN, cleanup \in BOOLEAN,
          mode \in NetModes :
          DownloadZipFile(k, force_overwrite, cleanup, mode) /\ UNCHANGED prev
    \/ \E k \in Keys, force_overwrite \in BOOLEAN, cleanup \in BOOLEAN,
          mode \in NetModes :
          DownloadTarFile(k, force_overwrite, cleanup, mode) /\ UNCHANGED prev
    \/ \E zip_path \in ArchivePaths, cleanup \in BOOLEAN :
          Unzip(zip_path, cleanup) /\ UNCHANGED prev
    \/ \E tar_path \in ArchivePaths, cleanup \in BOOLEAN :
          Untar(tar_path, cleanup) /\ UNCHANGED prev

Spec == Init /\ [][Next]_vars

\* download_from_remote called again and again, each call remembering the
\* one before it
NextFetch ==
    \E k \in Keys, force_overwrite \in BOOLEAN, mode \in NetModes :
       DownloadFromRemote(k, force_overwrite, mode) /\ prev' = Summary(last)

SpecFetch == Init /\ [][NextFetch]_vars

\* downloader, called again and again with every combination of arguments
NextDownloader ==
    \E download \in Downloads, partial_download \in Selections,
       info_message \in InfoMessages, force_overwrite \in BOOLEAN,
       cleanup \in BOOLEAN, mode \in NetModes :
       Downloader(download, partial_download, info_message, force_overwrite,
                  cleanup, mode) /\ UNCHANGED prev

SpecDownloader == Init /\ [][NextDownloader]_vars

\* remotes whose checksum is not the digest of the file their URL serves (a
\* manifest written for another version of the archive)
MISLABELLED ==
    [oldzip |-> RemoteFileMetadata("a.zip", URL_AUDIO, MD5("X"), None),
     oldtar |-> RemoteFileMetadata("b.tar.gz", URL_ANNOT, MD5("Y"), <<"sub">>)]

AllRemotes ==
    [k \in Keys \cup DOMAIN MISLABELLED |->
        IF k \in Keys THEN REMOTES[k] ELSE MISLABELLED[k]]

\* download_zip_file and download_tar_file, given any of these remotes
DownloadZipFileOf(k, force_overwrite, cleanup, mode) ==
    LET e == download_zip_file(fs, dirs, mode, AllRemotes[k], SAVE_DIR,
                               force_overwrite, cleanup)
    IN  Returns(CallOnFile("download_zip_file", k, DownloadPath(AllRemotes[k], SAVE_DIR),
                           force_overwrite, cleanup, mode, e), e)

DownloadTarFileOf(k, force_overwrite, cleanup, mode) ==
    LET e == download_tar_file(fs, dirs, mode, AllRemotes[k], SAVE_DIR,
                               force_overwrite, cleanup)
    IN  Returns(CallOnFile("download_tar_file", k, DownloadPath(AllRemotes[k], SAVE_DIR),
                           force_overwrite, cleanup, mode, e), e)

\* the two functions called on an archive whose checksum in the manifest is
\* right, and on one whose checksum is not
NextVerify ==
    \/ \E k \in {"audio", "oldzip"}, force_overwrite \in BOOLEAN,
          cleanup \in BOOLEAN, mode \in NetModes :
          DownloadZipFileOf(k, force_overwrite, cleanup, mode) /\ UNCHANGED prev
    \/ \E k \in {"annot", "oldtar"}, force_overwrite \in BOOLEAN,
          cleanup \in BOOLEAN, mode \in NetModes :
          DownloadTarFileOf(k, force_overwrite, cleanup, mode) /\ UNCHANGED prev

SpecVerify == Init /\ [][NextVerify]_vars

\* the download dicts whose order of insertion matters: two or more of the
\* remotes, in every order
OrderedDownloads ==
    {PyDict(ks) : ks \in {q \in UNION {[1..n -> Keys] : n \in 2..Cardinality(Keys)} :
                              \A i, j \in 1..Len(q) : i # j => q[i] # q[j]}}

\* downloader, called with such a dict and no partial_download
NextOrder ==
    \E download \in OrderedDownloads, force_overwrite \in BOOLEAN,
       cleanup \in BOOLEAN, mode \in NetModes :
       Downloader(download, PyNone, None, force_overwrite, cleanup, mode)
          /\ UNCHANGED prev

SpecOrder == Init /\ [][NextOrder]_vars

\* the networks these calls meet: the file arrives intact, or the
\* connection breaks after part of the file was written
AssetModes == {"ok", "reset"}

\* the calls that lines 95-105 make for a remote, one remote for each of the
\* three functions, called again and again, each call remembering the one
\* before it
NextAssets ==
    \/ \E force_overwrite \in BOOLEAN, cleanup \in BOOLEAN, mode \in AssetModes :
          DownloadZipFile("audio", force_overwrite, cleanup, mode)
             /\ prev' = Summary(last)
    \/ \E force_overwrite \in BOOLEAN, cleanup \in BOOLEAN, mode \in AssetModes :
          DownloadTarFile("annot", force_overwrite, cleanup, mode)
             /\ prev' = Summary(last)
    \/ \E force_overwrite \in BOOLEAN, mode \in AssetModes :
          DownloadFromRemote("index", force_overwrite, mode)
             /\ prev' = Summary(last)

SpecAssets == Init /\ [][NextAssets]_vars

(***************************************************************************)
(* downloader, lines 81-93, on its own: a working set of remotes, given by *)
(* their URLs, is sorted into the three lists.                             *)
(***************************************************************************)
UrlStems ==
    {<<"h", "/", "a">>, <<"h", "/">>, <<"h", ".", "x", "/", "a">>, <<"a">>}

UrlSuffixes ==
    {<<>>, DOT_ZIP, DOT_TAR, DOT_TAR_GZ, <<".", "g", "z">>, <<".", "t", "x", "t">>,
     <<".", "t", "g", "z">>, DOT_ZIP \o <<"?", "d">>, DOT_ZIP \o <<"/", "x">>}

Urls == {stem \o suffix : stem \in UrlStems, suffix \in UrlSuffixes}

InitClassify ==
    /\ fs = EmptyFS
    /\ dirs = {}
    /\ last = NoCall
    /\ prev = Summary(NoCall)
    /\ objs_to_download \in UNION {[1..n -> Urls] : n \in 1..MaxObjs}
    /\ zip_downloads = <<>>
    /\ tar_downloads = <<>>
    /\ file_downloads = <<>>

\* one turn of the loop of line 85
ClassifyStep ==
    /\ objs_to_download # <<>>
    /\ LET url == Head(objs_to_download)
           extension == splitext(url)[2]
       IN  IF Contains(DOT_ZIP, extension)
           THEN /\ zip_downloads' = Append(zip_downloads, url)
                /\ UNCHANGED <<tar_downloads, file_downloads>>
           ELSE IF Contains(DOT_TAR_GZ, extension) \/ Contains(DOT_TAR, extension)
                THEN /\ tar_downloads' = Append(tar_downloads, url)
                     /\ UNCHANGED <<zip_downloads, file_downloads>>
                ELSE /\ file_downloads' = Append(file_downloads, url)
                     /\ UNCHANGED <<zip_downloads, tar_downloads>>
    /\ objs_to_download' = Tail(objs_to_download)
    /\ UNCHANGED <<fs, dirs, last, prev>>

NextClassify == ClassifyStep

SpecClassify == InitClassify /\ [][NextClassify]_vars

(***************************************************************************)
(* The properties.                                                         *)
(***************************************************************************)
\* s ends with suffix
EndsWith(s, suffix) ==
    /\ Len(s) >= Len(suffix)
    /\ SubSeq(s, Len(s) - Len(suffix) + 1, Len(s)) = suffix

\* the kind of archive the documentation gives a URL
DocumentedKind(url) ==
    IF EndsWith(url, DOT_ZIP)
    THEN "zip"
    ELSE IF EndsWith(url, DOT_TAR_GZ) \/ EndsWith(url, DOT_TAR)
         THEN "tar"
         ELSE "plain"

\* the elements of a sequence
Range(q) == {q[i] : i \in 1..Len(q)}

\* the remote and the file the last call was about
LastRemote == REMOTES[last.remote]
LastPath == last.path

\* the file at a path is there and has the digest the remote names
Verified(f, path, remote) == path \in DOMAIN f /\ MD5(f[path]) = remote.checksum

\* the last call was downloader, given a dict
AcquireCalled == last.op = "downloader" /\ last.download.kind = "dict"

\* C1: downloader with a non-empty dict and no partial_download, on a network
\* that delivers every file intact, returns normally having transferred and
\* verified every remote and extracted exactly the zip and tar archives;
\* every file is then on disk with the expected digest, unless cleanup
\* removed the archive after extracting it.
C1_AcquireFetchesEverything ==
    (/\ AcquireCalled
     /\ last.download.keys # <<>>
     /\ last.partial_download.kind = "none"
     /\ last.net = "ok")
    => /\ last.outcome = "ok"
       /\ last.transfers = Len(last.download.keys)
       /\ last.md5s = Len(last.download.keys)
       /\ last.extracts =
             Cardinality({k \in Range(last.download.keys) :
                             DocumentedKind(REMOTES[k].url) # "plain"})
       /\ \A k \in Range(last.download.keys) :
             \/ Verified(fs, DownloadPath(REMOTES[k], SAVE_DIR), REMOTES[k])
             \/ /\ last.cleanup
                /\ DocumentedKind(REMOTES[k].url) # "plain"

\* C2: when download_from_remote returns normally, it returns
\* save_dir/[destination_dir/]filename, and the file there exists and has the
\* digest remote.checksum, whether it was transferred or found on disk.
C2_ReturnedFileIsVerified ==
    (last.op = "download_from_remote" /\ last.outcome = "ok")
    => /\ last.ret = DownloadPath(LastRemote, SAVE_DIR)
       /\ Verified(fs, last.ret, LastRemote)
       /\ last.md5s = 1

\* C2: a call returned normally without a transfer, on a file found on disk
C2_Witness ==
    /\ last.op = "download_from_remote"
    /\ last.outcome = "ok"
    /\ last.transfers = 0
    /\ last.pre # "-"

\* two calls of download_from_remote in a row for the same remote, both
\* with force_overwrite false, both returning normally
TwoFetchesInARow ==
    /\ prev.op = "download_from_remote"
    /\ last.op = "download_from_remote"
    /\ prev.remote = last.remote
    /\ ~prev.force_overwrite
    /\ ~last.force_overwrite
    /\ prev.outcome = "ok"
    /\ last.outcome = "ok"

\* what the second of two such calls does: no transfer, no change of any
\* file, one digest computed
SecondFetchIsCheap ==
    /\ last.transfers = 0
    /\ last.changed = {}
    /\ last.md5s = 1

\* C3, as claimed: two such calls make exactly one transfer between them, and
\* the second makes none, changes nothing and still computes the digest.
C3_ExactlyOneTransfer ==
    TwoFetchesInARow
    => /\ prev.transfers + last.transfers = 1
       /\ SecondFetchIsCheap

\* C3, amended: two such calls make at most one transfer between them, one
\* when the file was not there before the first call and none when it was;
\* the second makes none, changes nothing and still computes the digest.
C3_AtMostOneTransfer ==
    TwoFetchesInARow
    => /\ prev.transfers + last.transfers <= 1
       /\ prev.transfers = 1 <=> prev.pre = "-"
       /\ SecondFetchIsCheap

\* C3: the first call transferred the file, the second did not
C3_Witness ==
    /\ TwoFetchesInARow
    /\ prev.transfers = 1
    /\ last.transfers = 0

\* C4: a call of download_from_remote that leaves a file with another digest
\* than remote.checksum does not return the path; it raises the checksum
\* error unless the transfer itself raised.  When the file was there with
\* another digest and force_overwrite is false, the call raises the checksum
\* error without a transfer and without changing a file, and so does the
\* next call with force_overwrite false for the same remote.
C4_MismatchIsRejected ==
    /\ (/\ last.op = "download_from_remote"
        /\ LastPath \in DOMAIN fs
        /\ MD5(fs[LastPath]) # LastRemote.checksum)
       => /\ last.outcome # "ok"
          /\ last.ret = None
          /\ \/ last.outcome = "IOError"
             \/ /\ last.outcome = "URLError"
                /\ last.transfers = 1
                /\ last.net \in {"down", "reset"}
    /\ (/\ last.op = "download_from_remote"
        /\ ~last.force_overwrite
        /\ last.pre # "-"
        /\ MD5(last.pre) # LastRemote.checksum)
       => /\ last.outcome = "IOError"
          /\ last.transfers = 0
          /\ last.changed = {}
          /\ last.md5s = 1
    /\ (/\ prev.op = "download_from_remote"
        /\ prev.outcome = "IOError"
        /\ last.op = "download_from_remote"
        /\ last.remote = prev.remote
        /\ ~last.force_overwrite)
       => /\ last.outcome = "IOError"
          /\ last.transfers = 0

\* C4: a file with a wrong digest was found twice in a row, and rejected
\* twice without a transfer
C4_Witness ==
    /\ prev.op = "download_from_remote"
    /\ last.op = "download_from_remote"
    /\ prev.remote = last.remote
    /\ ~prev.force_overwrite
    /\ ~last.force_overwrite
    /\ prev.pre # "-"
    /\ prev.transfers = 0
    /\ prev.outcome = "IOError"
    /\ last.outcome = "IOError"
    /\ last.transfers = 0
    /\ last.net = "ok"

\* C5: download_from_remote with force_overwrite true transfers the file in
\* every call, also when a file with the expected digest is there; the
\* digest it then checks is that of what the transfer wrote.
C5_ForceAlwaysTransfers ==
    (last.op = "download_from_remote" /\ last.force_overwrite)
    => /\ last.transfers = 1
       /\ last.net \in {"ok", "corrupt"}
          => /\ last.md5s = 1
             /\ LastPath \in DOMAIN fs
             /\ fs[LastPath] =
                   (IF last.net = "ok" THEN ServerFile(LastRemote.url) ELSE "BAD")
             /\ last.outcome = "ok" <=> MD5(fs[LastPath]) = LastRemote.checksum

\* C5: a valid file was there, the forced call transferred it again, and
\* what came was rejected
C5_Witness ==
    /\ last.op = "download_from_remote"
    /\ last.force_overwrite
    /\ last.pre # "-"
    /\ MD5(last.pre) = LastRemote.checksum
    /\ last.transfers = 1
    /\ last.outcome = "IOError"

\* C6: the loop of lines 85-93 puts a URL that ends in .zip into
\* zip_downloads, one that ends in .tar.gz or .tar into tar_downloads and
\* every other URL into file_downloads.
C6_ClassifiedBySuffix ==
    /\ \A i \in 1..Len(zip_downloads) : DocumentedKind(zip_downloads[i]) = "zip"
    /\ \A i \in 1..Len(tar_downloads) : DocumentedKind(tar_downloads[i]) = "tar"
    /\ \A i \in 1..Len(file_downloads) : DocumentedKind(file_downloads[i]) = "plain"

\* C7: downloader given a dict and a partial_download list with a key that
\* the dict lacks, at any position, raises KeyError and has transferred
\* nothing, computed no digest, extracted nothing and changed no file.
C7_UnknownKeyFailsFast ==
    (/\ AcquireCalled
     /\ last.partial_download.kind = "list"
     /\ Range(last.partial_download.keys) \ Range(last.download.keys) # {})
    => /\ last.outcome = "KeyError"
       /\ last.transfers = 0
       /\ last.md5s = 0
       /\ last.extracts = 0
       /\ last.removes = 0
       /\ last.changed = {}

\* C7: the unknown key came after a key of the dict
C7_Witness ==
    /\ AcquireCalled
    /\ last.download.keys # <<>>
    /\ last.partial_download = PyList(<<"audio", "nope">>)
    /\ last.outcome = "KeyError"
    /\ last.transfers = 0

\* C8: downloader given the empty dict and an info_message prints the
\* message, returns normally, transfers nothing and writes nothing but
\* save_dir.
C8_EmptyManifestPrintsInfo ==
    (/\ AcquireCalled
     /\ last.download.keys = <<>>
     /\ last.partial_download.kind = "none"
     /\ last.info_message # None)
    => /\ last.outcome = "ok"
       /\ last.info_message \in Range(last.printed)
       /\ last.transfers = 0
       /\ last.changed = {}
       /\ last.made \subseteq {SAVE_DIR}

\* C9: unzip and untar, called on an archive that is there: the archive is
\* gone afterwards only if cleanup is true and the extraction was completed;
\* it is gone then; after a failed extraction it is there unchanged.
C9_CleanupOnlyAfterExtraction ==
    (last.op \in {"unzip", "untar"} /\ last.pre # "-")
    => /\ LastPath \notin DOMAIN fs
          => /\ last.cleanup
             /\ last.outcome = "ok"
             /\ last.extracts = 1
             /\ \A i \in 1..Len(ZipEntries(last.pre) \o TarEntries(last.pre)) :
                   LET entry == (ZipEntries(last.pre) \o TarEntries(last.pre))[i]
                   IN  ContentAt(fs, Join(Dirname(LastPath), entry.name)) = entry.content
       /\ (last.cleanup /\ last.outcome = "ok") => LastPath \notin DOMAIN fs
       /\ last.outcome # "ok" => ContentAt(fs, LastPath) = last.pre
       /\ ~last.cleanup => ContentAt(fs, LastPath) = last.pre

\* C9: an extraction with cleanup failed and the archive is still there
C9_Witness ==
    /\ last.op \in {"unzip", "untar"}
    /\ last.cleanup
    /\ last.pre # "-"
    /\ last.outcome \in {"BadZipFile", "ReadError"}
    /\ LastPath \in DOMAIN fs

\* C10: when the transfer or the checksum of the first remote that downloader
\* handles fails, that error leaves downloader, after one transfer and with
\* nothing extracted: no later remote is touched and nothing is tried again.
C10_FirstFailureLeavesAcquire ==
    (/\ AcquireCalled
     /\ last.download.keys # <<>>
     /\ last.partial_download.kind = "none"
     /\ last.net # "ok")
    => /\ last.outcome = (IF last.net = "corrupt" THEN "IOError" ELSE "URLError")
       /\ last.transfers = 1
       /\ last.md5s = (IF last.net = "corrupt" THEN 1 ELSE 0)
       /\ last.extracts = 0

\* the calls that extract: unzip, untar and the two functions that fetch an
\* archive and extract it
ZipOps == {"unzip", "download_zip_file"}
TarOps == {"untar", "download_tar_file"}

\* the entries of the archive the last call extracted
LastEntries == IF last.op \in ZipOps THEN ZipEntries("ZIP") ELSE TarEntries("TAR")

\* where the last call had to put the entries of the archive
LastTargets ==
    {[path |-> Dirname(LastPath) \o LastEntries[i].name,
      content |-> LastEntries[i].content] : i \in 1..Len(LastEntries)}

\* C11: an extraction writes only into the directory that holds the archive,
\* which is save_dir when destination_dir is None and save_dir/destination_dir
\* otherwise: the entry with relative path p is afterwards at <directory>/p,
\* no other file but the archive itself is touched, nothing is put under a
\* path named after the archive, and no directory is made outside that one.
C11_ExtractionPlacement ==
    (last.op \in ZipOps \cup TarOps)
    => /\ last.op \in {"download_zip_file", "download_tar_file"}
          => Dirname(LastPath) =
                (IF LastRemote.destination_dir = None
                 THEN SAVE_DIR
                 ELSE SAVE_DIR \o LastRemote.destination_dir)
       /\ last.extracts = 0 => last.changed \subseteq {LastPath}
       /\ last.extracts = 1
          => /\ \A t \in LastTargets : ContentAt(fs, t.path) = t.content
             /\ last.changed \subseteq {LastPath} \cup {t.path : t \in LastTargets}
             /\ \A t \in LastTargets :
                   /\ SubSeq(t.path, 1, Len(LastPath) - 1) = Dirname(LastPath)
                   /\ SubSeq(t.path, 1, Len(LastPath)) # LastPath
       /\ \A dir \in last.made :
             \/ dir \in Ancestors(Dirname(LastPath))
             \/ /\ last.extracts = 1
                /\ \E t \in LastTargets : dir \in Ancestors(Dirname(t.path))

\* C11: the archive of a remote with a destination_dir was fetched and
\* extracted, and its entry lies next to it
C11_Witness ==
    /\ last.op = "download_tar_file"
    /\ LastRemote.destination_dir # None
    /\ last.extracts = 1
    /\ ContentAt(fs, SAVE_DIR \o LastRemote.destination_dir \o <<"y.txt">>) = "Y"
    /\ <<"y.txt">> \in {SubSeq(q, Len(q), Len(q)) : q \in last.changed}

\* the last call was downloader, given a dict and a list of keys of the dict
AcquireSelected ==
    /\ AcquireCalled
    /\ last.partial_download.kind = "list"
    /\ Range(last.partial_download.keys) \subseteq Range(last.download.keys)

\* the files that belong to a remote: the file fetched, and what extracting
\* it puts next to it
FilesOf(k) ==
    LET path == DownloadPath(REMOTES[k], SAVE_DIR)
        entries == ZipEntries(ServerFile(REMOTES[k].url))
                       \o TarEntries(ServerFile(REMOTES[k].url))
    IN  {path} \cup {Dirname(path) \o entries[i].name : i \in 1..Len(entries)}

RetryAfterTransportFailure ==
    /\ prev.op = "download_from_remote"
    /\ prev.outcome = "URLError"
    /\ last.op = "download_from_remote"
    /\ last.remote = prev.remote
    /\ last.net = "ok"

\* the call transferred the file and returned it, verified
TransferredAndVerified ==
    /\ last.transfers = 1
    /\ last.outcome = "ok"
    /\ last.ret = LastPath
    /\ Verified(fs, LastPath, LastRemote)

\* C13, as claimed: such a call with force_overwrite false transfers the file
\* again and returns normally with a file of the expected digest, also when
\* the failed transfer left a part of the file behind.
C13_RetryTransfersAgain ==
    (RetryAfterTransportFailure /\ ~last.force_overwrite)
    => TransferredAndVerified

\* C13, amended: such a call with force_overwrite false transfers the file
\* again, and returns it verified, exactly when no file is at the path; when
\* a file is there (a part of the file the failed transfer left, or an older
\* file) it transfers nothing, changes nothing and returns or raises the
\* checksum error by the digest of that file.  With force_overwrite true it
\* transfers the file again and returns it verified.
C13_RetryTransfersWhenNoFileLeft ==
    RetryAfterTransportFailure
    => /\ (~last.force_overwrite /\ last.pre = "-") => TransferredAndVerified
       /\ (~last.force_overwrite /\ last.pre # "-")
          => /\ last.transfers = 0
             /\ last.changed = {}
             /\ last.md5s = 1
             /\ last.outcome =
                   (IF MD5(last.pre) = LastRemote.checksum THEN "ok" ELSE "IOError")
       /\ last.force_overwrite => TransferredAndVerified
       /\ (prev.pre = "-" /\ last.pre # "-") => last.pre = "BAD"

\* C13: the first call found no file and could not open the connection, and
\* the second call fetched the file
C13_Witness ==
    /\ RetryAfterTransportFailure
    /\ ~last.force_overwrite
    /\ prev.pre = "-"
    /\ last.pre = "-"
    /\ TransferredAndVerified

\* the calls downloader makes for one remote (lines 97, 101, 105)
AssetOps == {"download_zip_file", "download_tar_file", "download_from_remote"}
ArchiveOps == {"download_zip_file", "download_tar_file"}

\* the call before the last one completed its remote (fetched, verified
\* and, for an archive, extracted), and the last call is the same call for
\* the same remote with force_overwrite false
ReacquireAfterCompletion ==
    /\ prev.op \in AssetOps
    /\ prev.outcome = "ok"
    /\ prev.op \in ArchiveOps => prev.extracts = 1
    /\ last.op = prev.op
    /\ last.remote = prev.remote
    /\ ~last.force_overwrite

TransferFailed ==
    /\ last.op \in {"download_from_remote", "download_zip_file", "download_tar_file"}
    /\ last.pre = "-" \/ last.force_overwrite
    /\ last.net \in {"down", "reset"}

\* C15: when the transfer fails, download_from_remote has tried it once,
\* prints its message and raises the error of the transfer; it computes no
\* digest, returns no path and removes no file: a file that was at the path
\* is still there (as it was, or as far as the transfer overwrote it), and
\* the callers download_zip_file and download_tar_file extract nothing.
C15_TransportFailurePropagates ==
    TransferFailed
    => /\ last.transfers = 1
       /\ last.outcome = "URLError"
       /\ last.ret = None
       /\ last.md5s = 0
       /\ last.extracts = 0
       /\ last.removes = 0
       /\ last.printed = <<ERROR_MSG>>
       /\ last.changed \subseteq {LastPath}
       /\ last.pre # "-" => LastPath \in DOMAIN fs
       /\ last.net = "down" => last.changed = {}
       /\ last.net = "reset" => ContentAt(fs, LastPath) = "BAD"

\* C15: a forced transfer over a file with the expected digest broke, and
\* the path holds what the transfer wrote
C15_Witness ==
    /\ last.op = "download_from_remote"
    /\ last.force_overwrite
    /\ last.net = "reset"
    /\ MD5(last.pre) = LastRemote.checksum
    /\ last.outcome = "URLError"
    /\ ContentAt(fs, LastPath) = "BAD"

\* the order in which lines 95-105 go through a working set: the zip
\* archives, then the tar archives, then the other files, each group in the
\* order of the working set
ProcessingOrder(objs) ==
    GroupOf(objs, "zip") \o GroupOf(objs, "tar") \o GroupOf(objs, "plain")

\* C16: downloader goes through its working set one remote at a time, the
\* zip archives first, then the tar archives, then the other files, each
\* group in the order of the dict.  Told to overwrite, on a network that
\* delivers every file it therefore transfers every remote once, extracts
\* the archives and returns; on a network that delivers wrong bytes it stops
\* at the remote that comes first in that order, having written that file and
\* no other.
C16_ZipThenTarThenPlain ==
    (/\ AcquireCalled
     /\ last.partial_download.kind = "none"
     /\ Len(last.download.keys) >= 2
     /\ last.force_overwrite)
    => LET order == ProcessingOrder(last.download.keys)
           first == DownloadPath(REMOTES[order[1]], SAVE_DIR)
       IN  /\ last.net = "ok"
              => /\ last.outcome = "ok"
                 /\ last.transfers = Len(order)
                 /\ last.extracts =
                       Len(GroupOf(order, "zip")) + Len(GroupOf(order, "tar"))
           /\ last.net = "corrupt"
              => /\ last.outcome = "IOError"
                 /\ last.transfers = 1
                 /\ last.changed \subseteq {first}
                 /\ ContentAt(fs, first) = "BAD"

\* the last call was downloader and it raised the KeyError of line 66
UnknownKeyRaised == last.op = "downloader" /\ last.outcome = "KeyError"

\* C17, as claimed: when downloader raises KeyError it has made no directory,
\* save_dir included, written no file and transferred nothing.
C17_NothingTouchedBeforeKeyError ==
    UnknownKeyRaised
    => /\ last.made = {}
       /\ last.changed = {}
       /\ last.transfers = 0

\* C17, amended: when downloader raises KeyError it has written no file and
\* transferred nothing, and the one directory it has made is save_dir, when
\* that was missing: save_dir is there when the error is raised.
C17_OnlySaveDirMadeBeforeKeyError ==
    UnknownKeyRaised
    => /\ last.made \subseteq {SAVE_DIR}
       /\ SAVE_DIR \in dirs
       /\ last.changed = {}
       /\ last.transfers = 0
       /\ last.md5s = 0
       /\ last.extracts = 0
       /\ last.removes = 0

\* C17: the first call ever is given an unknown key: it makes save_dir and
\* raises KeyError
C17_Witness ==
    /\ UnknownKeyRaised
    /\ last.made = {SAVE_DIR}
    /\ DOMAIN fs = {}

\* the last call was downloader, given None for download
AcquireWithoutManifest == last.op = "downloader" /\ last.download.kind = "none"

\* C18: downloader given None for download makes save_dir when it is
\* missing and nothing else, prints info_message when one is given and
\* nothing otherwise, and returns normally; it transfers nothing, computes no
\* digest, extracts and removes nothing and does not look at
\* partial_download, whatever partial_download, force_overwrite and cleanup
\* are.
C18_AbsentManifestOnlyInforms ==
    AcquireWithoutManifest
    => /\ last.outcome = "ok"
       /\ SAVE_DIR \in dirs
       /\ last.made \subseteq {SAVE_DIR}
       /\ last.changed = {}
       /\ last.printed =
             (IF last.info_message # None THEN <<last.info_message>> ELSE <<>>)
       /\ last.transfers = 0
       /\ last.md5s = 0
       /\ last.extracts = 0
       /\ last.removes = 0

\* C18: the call was given a partial_download that names an unknown key, and
\* a message, on a missing save_dir: it made save_dir, printed and returned
C18_Witness ==
    /\ AcquireWithoutManifest
    /\ last.partial_download = PyList(<<"nope">>)
    /\ last.force_overwrite
    /\ last.cleanup
    /\ last.info_message = <<"hello">>
    /\ last.printed = <<<<"hello">>>>
    /\ last.made = {SAVE_DIR}
    /\ last.outcome = "ok"

\* what is at the path of the last call once its transfer, if it made one,
\* is over
AfterFetch ==
    IF last.transfers = 0
    THEN last.pre
    ELSE CASE last.net = "ok"   -> ServerFile(AllRemotes[last.remote].url)
           [] last.net = "down" -> last.pre
           [] OTHER             -> "BAD"

\* C19: download_zip_file and download_tar_file extract an archive, and
\* remove it, only after the same call has computed its digest and found it
\* equal to remote.checksum; when the transfer raised, or the digest of the
\* file differs, also for an archive that can be read, the call raises,
\* extracts nothing and removes nothing, and the file stays at the path.
C19_VerifiedBeforeExtracted ==
    (last.op \in {"download_zip_file", "download_tar_file"})
    => /\ (last.extracts > 0 \/ last.removes > 0)
          => /\ last.md5s = 1
             /\ last.net \in {"down", "reset"} => last.transfers = 0
             /\ MD5(AfterFetch) = AllRemotes[last.remote].checksum
       /\ (\/ last.outcome = "URLError"
           \/ AfterFetch # "-" /\ MD5(AfterFetch) # AllRemotes[last.remote].checksum)
          => /\ last.outcome \in {"URLError", "IOError"}
             /\ last.extracts = 0
             /\ last.removes = 0
             /\ last.changed \subseteq {LastPath}
             /\ ContentAt(fs, LastPath) = AfterFetch

\* C19: a zip archive that can be read was fetched, its digest was not the
\* one of the manifest, and with cleanup true it was neither extracted nor
\* removed
C19_Witness ==
    /\ last.op = "download_zip_file"
    /\ last.cleanup
    /\ last.transfers = 1
    /\ last.md5s = 1
    /\ last.outcome = "IOError"
    /\ ContentAt(fs, LastPath) = "ZIP"
    /\ last.extracts = 0
    /\ <<"out", "data", "x.csv">> \notin DOMAIN fs

\* the keys of the working set that lines 86-93 put into file_downloads
PlainKeys(objs) == Range(GroupOf(objs, "plain"))

\* C20: downloader fetches a remote that is no archive and leaves it alone,
\* whatever cleanup is: told to overwrite, on a network that delivers every
\* file, it returns normally, every such file is at
\* save_dir/[destination_dir/]filename with the expected digest, nothing was
\* extracted from it, and only the archives were extracted and, with cleanup,
\* removed.
C20_PlainFilesKept ==
    (/\ AcquireCalled
     /\ last.partial_download.kind = "none"
     /\ PlainKeys(last.download.keys) # {}
     /\ last.force_overwrite
     /\ last.net = "ok")
    => LET objs == last.download.keys
           archives == Len(GroupOf(objs, "zip")) + Len(GroupOf(objs, "tar"))
       IN  /\ last.outcome = "ok"
           /\ \A k \in PlainKeys(objs) :
                 /\ Verified(fs, DownloadPath(REMOTES[k], SAVE_DIR), REMOTES[k])
                 /\ (FilesOf(k) \ {DownloadPath(REMOTES[k], SAVE_DIR)})
                        \cap last.changed = {}
           /\ last.extracts = archives
           /\ last.removes = (IF last.cleanup THEN archives ELSE 0)

====
